---- MODULE Spec2Model ----
(***************************************************************************)
(* The transmit path of the I/O kernel (src/iokernel/tx.c): the egress     *)
(* poller and segmenter of tx_burst, the completion router                 *)
(* tx_send_completion and the overflow drain tx_drain_completions,         *)
(* together with the runtimes and the NIC driver they talk to.             *)
(*   Spec      the transmit path with its runtimes and the driver           *)
(*   SegSpec   the in-place segmentation of one packet buffer, byte by byte *)
(*   LoopSpec  the transmit path under a steady load, fairly scheduled      *)
(*   RaceSpec  tx_send_completion on a thread of the driver, statement by   *)
(*             statement, next to tx_drain_completions on the transmit      *)
(*             thread                                                       *)
(***************************************************************************)
EXTENDS Integers, Sequences, FiniteSets, TLC

(* ------------------------------------------------------------------------ *)
(* Program constants                                                        *)
(* ------------------------------------------------------------------------ *)
MTU_SIZE == 1500
UDP_OFFSET == 34
\* sizeof(struct udp_hdr), subtracted from the UDP length field
UdpHdrSize == 8
\* sizeof(struct tx_net_hdr): the segment header block of 60 bytes starts 60
\* bytes before payload + 42 and is used as a struct tx_net_hdr
TxNetHdrSize == 18
\* payload + 42: the first byte of application data
HdrLen == 42
\* bytes of application data per full segment
SegPayload == 1458
\* the header block duplicated in front of every segment
SegHdr == 60
\* distance between two consecutive segment header blocks
SegStride == 1518
\* UINT_MAX / 60 and (UINT_MAX + 1) % 60, for the division of a wrapped value
U32Div60 == 71582788
U32Mod60 == 16
\* hton16 / ntoh16 keep 16 bits
U16 == 65536

(* ------------------------------------------------------------------------ *)
(* Bounds of the model                                                      *)
(* ------------------------------------------------------------------------ *)
\* IOKERNEL_TX_BURST_SIZE
IOKERNEL_TX_BURST_SIZE == 2
\* IOKERNEL_OVERFLOW_BATCH_DRAIN
IOKERNEL_OVERFLOW_BATCH_DRAIN == 2
\* the largest p->max_overflows: the slots of p->overflow_queue
MaxOverflows == 2
\* slots of an ingress ring (th->rxq)
RingCap == 1
\* descriptors the NIC TX ring holds
NicCap == 2
\* packet buffers of the first runtime; there is one more
NDesc1 == 2
\* 2 MiB pages of the shared-memory region of a process
NrPages == 1
\* slots of an egress ring (th->txpktq)
TxqCap == IOKERNEL_TX_BURST_SIZE
\* mbufs in tx_mbuf_pool
PoolSize == NicCap + 1

TX_MAX_SEGS == IOKERNEL_TX_BURST_SIZE * 50
\* the model follows the pending counter up to this value
MaxPending == 2 * TX_MAX_SEGS

Procs == {1, 2}
Threads == {1, 2}
\* dp.clients, dp.nr_clients
Clients == <<1, 2>>
Descs == 1 .. (NDesc1 + 1)
\* the completion token of a packet buffer: never 0
Token(d) == d

(* ------------------------------------------------------------------------ *)
(* Byte order and unsigned arithmetic                                       *)
(* ------------------------------------------------------------------------ *)
\* hton16: the two bytes stored in the header, most significant first
hton16(x) == <<((x % U16) \div 256), (x % 256)>>
\* ntoh16: the value of two stored bytes
ntoh16(b) == b[1] * 256 + b[2]

(* ------------------------------------------------------------------------ *)
(* What a runtime may write into a header block: len, and the UDP length,   *)
(* IP total-length and IP protocol fields of the frame                      *)
(* ------------------------------------------------------------------------ *)
\* the protocol byte of the IP header of a UDP datagram and of a TCP segment
IPPROTO_UDP == 17
IPPROTO_TCP == 6
Hdr(len, udp) == [len |-> len, ulen |-> hton16(udp), iplen |-> hton16(udp + 20),
                  proto |-> IPPROTO_UDP]
\* the same bytes in a frame that is not UDP
NotUdp(h) == [h EXCEPT !.proto = IPPROTO_TCP]
\* a packet below the MTU
KSmall == Hdr(100, 66)
\* 2000 bytes of data and room for one more header block: two segments
KSeg2 == Hdr(2102, 2008)
\* 4000 bytes of data and room for two more header blocks: three segments
KSeg3 == Hdr(4162, 4008)
\* 4000 bytes of data and len = 42 + 4000: no room for header blocks
KFlat == Hdr(4042, 4008)
\* len and UDP length that give segs = 0
KZero == Hdr(1501, 1508)
\* a UDP length much smaller than len: the size of the last chunk wraps
KShort == Hdr(1501, 108)
\* more than the MTU and a UDP length of 8: no data
KEmpty == Hdr(1501, 8)
\* more than the MTU and not UDP; the bytes where a UDP length would be are
\* those of KSeg2
KRaw == NotUdp(KSeg2)

\* a datagram of the largest UDP length, laid out for its 45 segments
KMax == Hdr(68209, 65535)
AllKinds == {KSmall, KSeg2, KSeg3, KFlat, KZero, KShort}

(* ------------------------------------------------------------------------ *)
(* What the runtimes of a run do: the header blocks the second runtime      *)
(* writes, whether runtimes are torn down, whether threads park, how many   *)
(* packet buffers there are and how many of them the first runtime owns,    *)
(* p->max_overflows, whether the second runtime writes commands that        *)
(* tx_drain_queue does not accept, whether both threads belong to the first *)
(* runtime, and the header blocks a pointer read from an unwritten slot of   *)
(* hdrs[] may designate                                                     *)
(* ------------------------------------------------------------------------ *)
EnvGso == [name |-> "gso", kinds |-> AllKinds, kill |-> FALSE, park |-> FALSE,
    shared |-> FALSE, reuse |-> FALSE, bad |-> FALSE, ndesc |-> NDesc1 + 1,
    own1 |-> NDesc1, max_overflows |-> 1, stale |-> {KSmall}]
EnvKill == [name |-> "kill", kinds |-> {KSmall, KSeg2}, kill |-> TRUE, park |-> FALSE,
    shared |-> FALSE, reuse |-> FALSE, bad |-> FALSE, ndesc |-> NDesc1 + 1,
    own1 |-> NDesc1, max_overflows |-> 1, stale |-> {KSmall}]
EnvPark == [name |-> "park", kinds |-> {KSmall}, kill |-> FALSE, park |-> TRUE,
    shared |-> TRUE, reuse |-> FALSE, bad |-> FALSE, ndesc |-> NDesc1 + 1,
    own1 |-> NDesc1, max_overflows |-> 1, stale |-> {KSmall}]
EnvSpill == [name |-> "spill", kinds |-> {KSmall}, kill |-> FALSE, park |-> FALSE,
    shared |-> FALSE, reuse |-> FALSE, bad |-> FALSE, ndesc |-> NDesc1 + 1,
    own1 |-> NDesc1 + 1, max_overflows |-> MaxOverflows, stale |-> {KSmall}]
EnvFull == [name |-> "full", kinds |-> {KSmall}, kill |-> FALSE, park |-> FALSE,
    shared |-> FALSE, reuse |-> FALSE, bad |-> FALSE, ndesc |-> NDesc1 + 1,
    own1 |-> NDesc1 + 1, max_overflows |-> 1, stale |-> {KSmall}]
EnvLoop == [name |-> "loop", kinds |-> {KSmall}, kill |-> FALSE, park |-> FALSE,
    shared |-> FALSE, reuse |-> TRUE, bad |-> FALSE, ndesc |-> NDesc1 + 1,
    own1 |-> NDesc1, max_overflows |-> 1, stale |-> {KSmall}]
EnvBad == [name |-> "bad", kinds |-> {KSmall, KEmpty, KRaw}, kill |-> FALSE, park |-> FALSE,
    shared |-> FALSE, reuse |-> FALSE, bad |-> TRUE, ndesc |-> NDesc1 + 1,
    own1 |-> NDesc1, max_overflows |-> 1, stale |-> {KSmall}]
\* there is one packet buffer, which the second runtime owns and sends as a
\* two-segment packet, and threads park
EnvParkGso == [name |-> "parkgso", kinds |-> {KSeg2}, kill |-> FALSE, park |-> TRUE,
    shared |-> FALSE, reuse |-> FALSE, bad |-> FALSE, ndesc |-> 1,
    own1 |-> 0, max_overflows |-> 1, stale |-> {KSmall}]
\* there are two packet buffers, which the second runtime owns and sends as
\* three-segment packets;
\* a pointer read from a slot of hdrs[] that was not written may also
\* designate the header block of a packet of the largest UDP length
EnvStale == [name |-> "stale", kinds |-> {KSeg3}, kill |-> FALSE, park |-> FALSE,
    shared |-> FALSE, reuse |-> FALSE, bad |-> FALSE, ndesc |-> 2,
    own1 |-> 0, max_overflows |-> 1, stale |-> {KSmall, KMax}]
Envs == {EnvGso, EnvKill, EnvPark, EnvSpill, EnvFull, EnvBad, EnvParkGso, EnvStale}

Min(a, b) == IF a < b THEN a ELSE b
Max(a, b) == IF a > b THEN a ELSE b

RECURSIVE Flatten(_)
Flatten(ss) == IF ss = <<>> THEN <<>> ELSE Head(ss) \o Flatten(Tail(ss))

VARIABLES
  txq,            \* th->txpktq: egress ring of every thread
  rxq,            \* th->rxq: ingress ring of every thread
  active,         \* th->active
  ts,             \* ts[0 .. nrts-1]: the polled threads
  ref,            \* p->ref minus the registration count
  kill,           \* p->kill
  overflow_queue, \* p->overflow_queue
  nr_overflows,   \* p->nr_overflows
  next_thread_rr, \* p->next_thread_rr
  pos,            \* tx_burst: static pos
  n_pkts,         \* tx_burst: static n_pkts
  bufs,           \* tx_burst: static bufs[0 .. n_bufs-1]
  drain_pos,      \* tx_drain_completions: static pos
  nic,            \* buffers the driver accepted and has not released
  pool_free,      \* free mbufs of tx_mbuf_pool
  crashed,        \* the I/O kernel process has stopped (invalid access, abort)
  dstate,         \* the runtime's view of its packet buffers
  env,            \* what the runtimes of this run do
  mem,            \* the bytes of one packet buffer, from its struct tx_net_hdr on
  sg,             \* the segmenter's position in that packet buffer
  cc,             \* where a tx_send_completion on a thread of the driver and
                  \* a tx_drain_completions on the transmit thread stand
  last            \* what the last call of the transmit path did

vars == <<txq, rxq, active, ts, ref, kill, overflow_queue, nr_overflows,
          next_thread_rr, pos, n_pkts, bufs, drain_pos, nic, pool_free,
          crashed, dstate, env, mem, sg, cc, last>>

\* static n_bufs: the entries of bufs that hold prepared buffers
n_bufs == Len(bufs)
nrts == Len(ts)

NoCall == [op |-> "none"]
\* no call of the completion router is under way
CcIdle == [cb |-> [pc |-> "idle"], dr |-> [pc |-> "idle"]]

\* th->p: every thread is the one thread of its own process, or both are
\* threads of the first process
ProcOf(t) == IF env.shared THEN 1 ELSE t
\* the threads of p
ThreadsOf(p) == SelectSeq(<<1, 2>>, LAMBDA t : ProcOf(t) = p)

\* the thread whose egress ring a packet buffer is enqueued on
DescThread(d) == IF d <= env.own1 THEN 1 ELSE 2
\* the header blocks a runtime writes
KindsOf(d) == IF DescThread(d) = 1 THEN {KSmall} ELSE env.kinds

InitState ==
  /\ txq = [t \in Threads |-> <<>>]
  /\ rxq = [t \in Threads |-> <<>>]
  /\ active = [t \in Threads |-> TRUE]
  /\ ts = <<1, 2>>
  /\ ref = [p \in Procs |-> 0]
  /\ kill = [p \in Procs |-> FALSE]
  /\ overflow_queue = [p \in Procs |-> [i \in 1 .. MaxOverflows |-> 0]]
  /\ nr_overflows = [p \in Procs |-> 0]
  /\ next_thread_rr = [p \in Procs |-> 0]
  /\ pos = 0
  /\ n_pkts = 0
  /\ bufs = <<>>
  /\ drain_pos = 0
  /\ nic = <<>>
  /\ pool_free = PoolSize
  /\ crashed = FALSE
  /\ dstate = [d \in Descs |-> "free"]
  /\ last = NoCall
  /\ cc = CcIdle

\* no packet buffer is followed byte by byte
SegIdle == [pc |-> "idle"]

Init == InitState /\ env \in Envs /\ mem = <<>> /\ sg = SegIdle

(* ------------------------------------------------------------------------ *)
(* The segmenter of tx_burst                                                *)
(* ------------------------------------------------------------------------ *)
\* An unsigned int x is held as the integer congruent to it modulo 2^32 that
\* lies in (-2^31, 2^31): a negative value stands for the wrapped x + 2^32.
\* x / 60 in unsigned int arithmetic
UDiv60(x) ==
  IF x >= 0 THEN x \div SegHdr ELSE U32Div60 + ((U32Mod60 + x) \div SegHdr)
\* len = ntoh16(udphdr->len) - sizeof(struct udp_hdr)
PayloadLen(h) == ntoh16(h.ulen) - UdpHdrSize
\* segs = (hdrs[i]->len + sizeof (struct tx_net_hdr) - len) / 60
SegCount(h) == UDiv60(h.len + TxNetHdrSize - PayloadLen(h))
\* the largest segs for which a 16-bit UDP length covers 1458 * (segs - 1)
MaxFitSegs == (U16 \div SegPayload) + 1
\* len - 1458 * (segs - 1): the size of the last chunk (for segs that fit)
Residual(h) == PayloadLen(h) - SegPayload * (SegCount(h) - 1)
\* shdr->len of the last segment
LastLen(h) == Residual(h) + HdrLen
\* the chunk loop leaves the mapped memory: segs - 1 wraps to UINT_MAX when
\* segs = 0, and the first memmove gets a wrapped size (2 GiB or more) when
\* the payload length is below 1458 * (segs - 1) or has itself wrapped
SegFaults(h) ==
  /\ h.len > MTU_SIZE
  /\ \/ SegCount(h) = 0
     \/ SegCount(h) > MaxFitSegs
     \/ SegCount(h) >= 2 /\ SegCount(h) <= MaxFitSegs /\ Residual(h) < 0
\* a segmenter that leaves the token of the packet in every segment
SegTokenKept(j, segs, tok) == tok
\* completion_data of segment j of segs: 0 for all but the last
SegToken(j, segs, tok) == IF j < segs THEN 0 ELSE tok
\* shdr->len of segment j of segs
SegLenOf(j, h) == IF j < SegCount(h) THEN MTU_SIZE ELSE LastLen(h)
\* the segments of one pulled header block e = [th, d, tok, h]
Segments(e) ==
  IF e.h.len <= MTU_SIZE
  THEN << [th |-> e.th, p |-> ProcOf(e.th), tok |-> e.tok, len |-> e.h.len,
           d |-> e.d, seg |-> 1, of |-> 1, gso |-> FALSE, pgn |-> e.pgn,
           udplen |-> e.h.ulen, iplen |-> e.h.iplen, proto |-> e.h.proto] >>
  ELSE [j \in 1 .. SegCount(e.h) |->
          [th |-> e.th, p |-> ProcOf(e.th),
           tok |-> SegToken(j, SegCount(e.h), e.tok),
           len |-> SegLenOf(j, e.h),
           d |-> e.d, seg |-> j, of |-> SegCount(e.h), gso |-> TRUE, pgn |-> e.pgn,
           udplen |-> hton16(SegLenOf(j, e.h) - 34),
           iplen |-> hton16(SegLenOf(j, e.h) - 14), proto |-> e.h.proto]]

(* ------------------------------------------------------------------------ *)
(* The egress poller of tx_burst                                            *)
(* ------------------------------------------------------------------------ *)
\* unpoll_thread: t leaves the poll set
unpoll_thread(tsv, t) == SelectSeq(tsv, LAMBDA x : x # t)

\* the only command tx_drain_queue accepts, and one it does not
TXPKT_NET_XMIT == "TXPKT_NET_XMIT"
TXPKT_NR == "TXPKT_NR"
\* shmptr_to_ptr(&t->p->region, payload, sizeof(struct tx_net_hdr)) is not
\* NULL: the offset and the struct behind it lie in the region of p
shmptr_to_ptr_ok(c) == c.inregion
\* BUG_ON(cmd != TXPKT_NET_XMIT) or BUG_ON(!hdrs[i]) fires on ring entry c
BugOn(c) == c.cmd # TXPKT_NET_XMIT \/ ~shmptr_to_ptr_ok(c)

\* a drain that ignores n and empties the ring
tx_drain_queue_all(q, n) == [got |-> q, rest |-> <<>>, empty |-> TRUE, bug |-> FALSE]
\* tx_drain_queue(t, n, hdrs) on ring q: the entries received, what is left
\* of the ring, and whether lrpc_recv found the ring empty
tx_drain_queue(q, n) ==
  LET k == Min(Max(n, 0), Len(q))
      bad == {i \in 1 .. k : BugOn(q[i])}
  IN IF bad = {}
     THEN [got |-> SubSeq(q, 1, k), rest |-> SubSeq(q, k + 1, Len(q)),
           empty |-> k < n, bug |-> FALSE]
     ELSE LET b == CHOOSE i \in bad : \A j \in bad : i <= j
          IN [got |-> SubSeq(q, 1, b - 1), rest |-> SubSeq(q, b + 1, Len(q)),
              empty |-> FALSE, bug |-> TRUE]

\* the poll loop: i is the loop counter, tsv the poll set, q the egress rings,
\* acc the header blocks pulled so far; bug: a BUG_ON of tx_drain_queue fired
RECURSIVE PollLoop(_, _, _, _)
PollLoop(i, tsv, q, acc) ==
  IF i >= Len(tsv)
  THEN [ts |-> tsv, txq |-> q, pulled |-> acc, full |-> FALSE, bug |-> FALSE]
  ELSE LET t == tsv[((pos + i) % Len(tsv)) + 1]
           r == tx_drain_queue(q[t], IOKERNEL_TX_BURST_SIZE - (n_pkts + Len(acc)))
           q1 == [q EXCEPT ![t] = r.rest]
           ts1 == IF r.empty /\ ~active[t] THEN unpoll_thread(tsv, t) ELSE tsv
           acc1 == acc \o [x \in 1 .. Len(r.got) |->
                             [th |-> t, d |-> r.got[x].d, tok |-> r.got[x].tok,
                              h |-> r.got[x].h, pgn |-> r.got[x].pgn]]
       IN IF r.bug
          THEN [ts |-> ts1, txq |-> q1, pulled |-> acc1, full |-> FALSE, bug |-> TRUE]
          ELSE IF n_pkts + Len(acc1) >= IOKERNEL_TX_BURST_SIZE
          THEN [ts |-> ts1, txq |-> q1, pulled |-> acc1, full |-> TRUE, bug |-> FALSE]
          ELSE PollLoop(i + 1, ts1, q1, acc1)

Poll == PollLoop(0, ts, txq, <<>>)

(* ------------------------------------------------------------------------ *)
(* The completion router                                                    *)
(* ------------------------------------------------------------------------ *)
proc_get(r) == r + 1
proc_put(r) == r - 1

\* lrpc_send on an ingress ring: fails when the ring is full
lrpc_send_ok(ring) == Len(ring) < RingCap
\* rx_send_to_runtime(p, hash, ...): the thread of p the hash selects
RrThread(p, rr) == ThreadsOf(p)[(rr % Len(ThreadsOf(p))) + 1]
\* p->next_thread_rr++
RrNext(p, rr) == (rr + 1) % Len(ThreadsOf(p))

\* a router that always tries the ring of the originating thread
CompletionThreadOrigin(b) == b.th
\* the ingress ring tx_send_completion tries for buffer b
CompletionThread(b) ==
  IF active[b.th] THEN b.th ELSE RrThread(b.p, next_thread_rr[b.p])

\* a spill that counts the token and does not store it
OverflowPushLost(q, n, tok) == q
\* a spill that stores the token in the first slot
OverflowPushFirst(q, n, tok) == [q EXCEPT ![1] = tok]
\* p->overflow_queue[p->nr_overflows++] = completion_data
OverflowPush(q, n, tok) == [q EXCEPT ![n + 1] = tok]
\* a drain that takes the oldest token and still lowers the counter
OverflowOldest(q, n) == q[1]
\* p->overflow_queue[--p->nr_overflows]
OverflowTop(q, n) == q[n]

\* whether tx_send_completion drops its reference on p on the path taken
PutsRef(path) == path # "overflow_full"

\* a router that does not look at p->kill
CompletionPathNoKill(b) ==
  IF b.tok = 0 THEN "suppressed"
  ELSE IF lrpc_send_ok(rxq[CompletionThread(b)]) THEN "sent"
  ELSE IF nr_overflows[b.p] = env.max_overflows THEN "overflow_full"
  ELSE "overflow"
\* a router that does not compare p->nr_overflows with p->max_overflows
CompletionPathNoLimit(b) ==
  IF kill[b.p] THEN "killed"
  ELSE IF b.tok = 0 THEN "suppressed"
  ELSE IF lrpc_send_ok(rxq[CompletionThread(b)]) THEN "sent"
  ELSE "overflow"
\* the path tx_send_completion takes for buffer b
CompletionPath(b) ==
  IF kill[b.p] THEN "killed"
  ELSE IF b.tok = 0 THEN "suppressed"
  ELSE IF lrpc_send_ok(rxq[CompletionThread(b)]) THEN "sent"
  ELSE IF nr_overflows[b.p] = env.max_overflows THEN "overflow_full"
  ELSE "overflow"

tx_send_completion(b) ==
  LET p == b.p
      path == CompletionPath(b)
      tried == path \in {"sent", "overflow", "overflow_full"}
  IN /\ rxq' = IF path = "sent"
               THEN [rxq EXCEPT ![CompletionThread(b)] = Append(@, b.tok)]
               ELSE rxq
     /\ next_thread_rr' = IF tried /\ ~active[b.th]
                          THEN [next_thread_rr EXCEPT ![p] = RrNext(p, @)]
                          ELSE next_thread_rr
     /\ overflow_queue' = IF path = "overflow"
                          THEN [overflow_queue EXCEPT
                                  ![p] = OverflowPush(@, nr_overflows[p], b.tok)]
                          ELSE overflow_queue
     /\ nr_overflows' = IF path = "overflow"
                        THEN [nr_overflows EXCEPT ![p] = @ + 1]
                        ELSE nr_overflows
     /\ ref' = IF PutsRef(path) THEN [ref EXCEPT ![p] = proc_put(@)] ELSE ref
     /\ last' = [op |-> "tx_send_completion", ret |-> path # "overflow_full",
                 path |-> path]

\* the driver releases its oldest buffer: the mempool's free runs
\* tx_send_completion on it and the mbuf is back in the pool
DriverRelease ==
  /\ ~crashed
  /\ nic # <<>>
  /\ tx_send_completion(Head(nic))
  /\ nic' = Tail(nic)
  /\ pool_free' = pool_free + 1
  /\ UNCHANGED <<txq, active, ts, kill, pos, n_pkts, bufs, drain_pos, crashed, dstate, env, mem, sg, cc>>

\* drain_overflow_queue(p, n): S = [rxq, nr, rr, i], nr and rr those of p
RECURSIVE drain_overflow_queue(_, _, _)
drain_overflow_queue(p, n, S) ==
  IF S.nr > 0 /\ S.i < n
  THEN LET dst == RrThread(p, S.rr)
           tok == OverflowTop(overflow_queue[p], S.nr)
       IN IF lrpc_send_ok(S.rxq[dst])
          THEN drain_overflow_queue(p, n,
                 [rxq |-> [S.rxq EXCEPT ![dst] = Append(@, tok)],
                  nr |-> S.nr - 1, rr |-> RrNext(p, S.rr), i |-> S.i + 1])
          ELSE [S EXCEPT !.rr = RrNext(p, S.rr)]
  ELSE S

\* the loop of tx_drain_completions: D = [rxq, nr, rr, drained]
RECURSIVE DrainLoop(_, _)
DrainLoop(i, D) ==
  IF i < Len(Clients) /\ D.drained < IOKERNEL_OVERFLOW_BATCH_DRAIN
  THEN LET p == Clients[((drain_pos + i) % Len(Clients)) + 1]
           r == drain_overflow_queue(p, IOKERNEL_OVERFLOW_BATCH_DRAIN - D.drained,
                  [rxq |-> D.rxq, nr |-> D.nr[p], rr |-> D.rr[p], i |-> 0])
       IN DrainLoop(i + 1, [rxq |-> r.rxq, nr |-> [D.nr EXCEPT ![p] = r.nr],
                            rr |-> [D.rr EXCEPT ![p] = r.rr],
                            drained |-> D.drained + r.i])
  ELSE D

tx_drain_completions ==
  /\ ~crashed
  /\ \E D \in {DrainLoop(0, [rxq |-> rxq, nr |-> nr_overflows,
                              rr |-> next_thread_rr, drained |-> 0])} :
        /\ rxq' = D.rxq
        /\ nr_overflows' = D.nr
        /\ next_thread_rr' = D.rr
        /\ last' = [op |-> "tx_drain_completions", ret |-> D.drained > 0,
                    drained |-> D.drained]
  /\ drain_pos' = (drain_pos + 1) % Len(Clients)
  /\ UNCHANGED <<txq, active, ts, ref, kill, overflow_queue, pos, n_pkts, bufs,
                 nic, pool_free, crashed, dstate, env, mem, sg, cc>>

(* ------------------------------------------------------------------------ *)
(* tx_burst                                                                 *)
(* ------------------------------------------------------------------------ *)
\* hdrs[n_bufs .. n_pkts-1] at entry: slots of the call-local array that this
\* call reads and never wrote (a failed allocation left n_pkts above n_bufs)
UninitSlots == n_pkts - n_bufs
\* the slots of hdrs[] and threads[] the poll loop of a call writes:
\* tx_drain_queue(t, ..., &hdrs[n_pkts]) and threads[j] = t for the descriptors
\* it dequeues, from the n_pkts of entry on
HdrsWritten(P) == n_pkts .. (n_pkts + Len(P.pulled) - 1)
\* the slots of hdrs[] a call reads: none when a BUG_ON fired or the call
\* returns false, else print_pkt_contents(hdrs[i]) for every i < n_pkts and
\* hdrs[i]->len, threads[i] for n_bufs <= i < n_pkts
HdrsRead(P) ==
  IF P.bug \/ n_pkts + Len(P.pulled) = 0 THEN {}
  ELSE 0 .. (n_pkts + Len(P.pulled) - 1)

\* what an indeterminate hdrs[i] / threads[i] may point to: a header block of
\* some packet buffer, or one whose token is 0, of some thread
StaleHdrs ==
  {[th |-> t, d |-> k, tok |-> k, h |-> h, pgn |-> 0] :
     t \in Threads, k \in {0} \cup Descs, h \in env.stale}

\* the number of segments made of header block h
NSegs(h) == IF h.len <= MTU_SIZE THEN 1 ELSE SegCount(h)
\* what the unwritten slots of a call hold (all the same); the counter m is
\* followed up to MaxPending
StaleChoice ==
  IF UninitSlots > 0
  THEN {g \in StaleHdrs : UninitSlots * NSegs(g.h) <= MaxPending}
  ELSE {[th |-> 1, d |-> 0, tok |-> 0, h |-> KSmall, pgn |-> 0]}
\* the header blocks the segmenter works on: the unwritten slots, then the
\* blocks pulled by this call
BurstEntries(P, g) == [x \in 1 .. UninitSlots |-> g] \o P.pulled
BurstSegs(P, g) ==
  Flatten([x \in 1 .. Len(BurstEntries(P, g)) |-> Segments(BurstEntries(P, g)[x])])
RECURSIVE SumSegs(_)
\* the number of segments made of the header blocks es
SumSegs(es) == IF es = <<>> THEN 0 ELSE NSegs(Head(es).h) + SumSegs(Tail(es))
\* m - n_bufs after the segmenter: the segments that need an mbuf
BurstM(P, g) == UninitSlots * NSegs(g.h) + SumSegs(P.pulled)

\* p->page_paddrs has one entry for every 2 MiB page of the region of p:
\* pgn is an index of the table
PageInTable(pgn) == pgn < NrPages

\* a poller that advances pos in every call
NextPosAlways(P) == (pos + 1) % Cardinality(Threads)
\* pos++ unless the poll loop left by "goto full"
NextPos(P) == IF P.full THEN pos ELSE (pos + 1) % Cardinality(Threads)

RECURSIVE AddRefs(_, _)
\* proc_get(p) of tx_prepare_tx_mbuf for every new buffer
AddRefs(r, segs) ==
  IF segs = <<>> THEN r
  ELSE AddRefs([r EXCEPT ![Head(segs).p] = proc_get(@)], Tail(segs))

\* the outcome of a call: what it returned, what rte_eth_tx_burst returned
\* (0 when not reached), and the statistics it added
BurstReport(ret, P, sent, bp, fail) ==
  [op |-> "tx_burst", ret |-> ret, TX_PULLED |-> Len(P.pulled), sent |-> sent,
   TX_BACKPRESSURE |-> bp, TX_COMPLETION_FAIL |-> fail]

\* nothing pending and nothing pulled: return false
TxBurstIdle(P) ==
  /\ n_pkts + Len(P.pulled) = 0
  /\ ts' = P.ts
  /\ last' = BurstReport(FALSE, P, 0, 0, 0)
  /\ UNCHANGED <<txq, rxq, active, ref, kill, overflow_queue, nr_overflows,
                 next_thread_rr, pos, n_pkts, bufs, drain_pos, nic, pool_free,
                 crashed, dstate, env, mem, sg, cc>>

\* the call stops the I/O kernel
BurstStops(P) ==
  /\ txq' = P.txq
  /\ ts' = P.ts
  /\ pos' = NextPos(P)
  /\ crashed' = TRUE
  /\ last' = [op |-> "tx_burst_fault"]
  /\ UNCHANGED <<rxq, active, ref, kill, overflow_queue, nr_overflows,
                 next_thread_rr, n_pkts, bufs, drain_pos, nic, pool_free, dstate, env, mem, sg, cc>>

\* a BUG_ON of tx_drain_queue fired: the I/O kernel process is ended
TxBurstBug(P) ==
  /\ P.bug
  /\ BurstStops(P)

\* print_pkt_contents(hdrs[i]) for i < n_pkts reads the slots below the
\* n_pkts of entry, which this call never wrote, and dereferences them
TxBurstFaultPrint(P) ==
  /\ n_pkts > 0
  /\ BurstStops(P)

\* the chunk loop of the segmenter leaves the mapped memory
TxBurstFaultSeg(P) ==
  /\ \E x \in 1 .. Len(P.pulled) : SegFaults(P.pulled[x].h)
  /\ BurstStops(P)

\* hdrs[i] for n_bufs <= i < n_pkts of entry is an indeterminate pointer
TxBurstFaultStale(P) ==
  /\ UninitSlots > 0
  /\ BurstStops(P)

\* p->page_paddrs[page_number] of tx_prepare_tx_mbuf reads behind the table
\* of p and the read faults
TxBurstFaultPage(P) ==
  /\ \E x \in 1 .. Len(P.pulled) : ~PageInTable(P.pulled[x].pgn)
  /\ \A x \in 1 .. Len(P.pulled) : ~SegFaults(P.pulled[x].h)
  /\ \E g \in StaleChoice : BurstM(P, g) <= pool_free
  /\ BurstStops(P)

\* rte_mempool_get_bulk fails: return true with n_pkts = m
TxBurstNoMbufs(P) ==
  /\ n_pkts + Len(P.pulled) > 0
  /\ \A x \in 1 .. Len(P.pulled) : ~SegFaults(P.pulled[x].h)
  /\ \E g \in StaleChoice :
       \E m \in {BurstM(P, g)} :
          /\ m > pool_free
          /\ n_pkts' = n_bufs + m
          /\ last' = BurstReport(TRUE, P, 0, 0, m)
  /\ txq' = P.txq
  /\ ts' = P.ts
  /\ pos' = NextPos(P)
  /\ UNCHANGED <<rxq, active, ref, kill, overflow_queue, nr_overflows,
                 next_thread_rr, bufs, drain_pos, nic, pool_free, crashed, dstate, env, mem, sg, cc>>

\* the buffers are prepared and offered to the driver, which accepts k: all
\* of them when the NIC ring is known to have room (greedy)
TxBurstOffer(P, greedy) ==
  /\ n_pkts + Len(P.pulled) > 0
  /\ \A x \in 1 .. Len(P.pulled) : ~SegFaults(P.pulled[x].h)
  /\ \E g \in StaleChoice :
       /\ BurstM(P, g) <= pool_free
       /\ \E segs \in {BurstSegs(P, g)}, all \in {bufs \o BurstSegs(P, g)} :
          /\ pool_free' = pool_free - Len(segs)
          /\ ref' = AddRefs(ref, segs)
          /\ \E k \in 0 .. Min(Len(all), NicCap - Len(nic)) :
               /\ greedy => k = Len(all)
               /\ nic' = nic \o SubSeq(all, 1, k)
               /\ bufs' = SubSeq(all, k + 1, Len(all))
               /\ n_pkts' = Len(all) - k
               /\ last' = BurstReport(TRUE, P, k, Len(all) - k, 0)
  /\ txq' = P.txq
  /\ ts' = P.ts
  /\ pos' = NextPos(P)
  /\ UNCHANGED <<rxq, active, kill, overflow_queue, nr_overflows,
                 next_thread_rr, drain_pos, crashed, dstate, env, mem, sg, cc>>

TxBurstSend(P) == TxBurstOffer(P, FALSE)

tx_burst ==
  /\ ~crashed
  /\ \E P \in {Poll} :
       \/ TxBurstBug(P)
       \/ /\ ~P.bug
          /\ \/ TxBurstIdle(P)
             \/ TxBurstFaultPrint(P)
             \/ TxBurstFaultSeg(P)
             \/ TxBurstFaultStale(P)
             \/ TxBurstFaultPage(P)
             \/ TxBurstNoMbufs(P)
             \/ TxBurstSend(P)

(* ------------------------------------------------------------------------ *)
(* The runtimes                                                             *)
(* ------------------------------------------------------------------------ *)
\* the command and the shared-memory offset a runtime thread writes into a
\* slot of its egress ring; pgn is the 2 MiB page of the region in which the
\* payload behind the header block at that offset begins
GoodCmd == [cmd |-> TXPKT_NET_XMIT, inregion |-> TRUE, pgn |-> 0]
\* a header block that ends where the region ends: shmptr_to_ptr accepts it,
\* and its payload begins in the page behind the last page of the region
EndCmd == [cmd |-> TXPKT_NET_XMIT, inregion |-> TRUE, pgn |-> NrPages]
CmdsOf(t) ==
  IF env.bad /\ t = 2
  THEN {GoodCmd, EndCmd, [cmd |-> TXPKT_NR, inregion |-> TRUE, pgn |-> 0],
        [cmd |-> TXPKT_NET_XMIT, inregion |-> FALSE, pgn |-> 0]}
  ELSE {GoodCmd}

\* a runtime thread fills a free packet buffer and enqueues a command for it
RuntimeEnqueue(t) ==
  /\ ~crashed
  /\ active[t]
  /\ ~kill[ProcOf(t)]
  /\ Len(txq[t]) < TxqCap
  /\ \E d \in Descs :
       /\ d <= env.ndesc
       /\ DescThread(d) = t
       /\ dstate[d] = "free"
       /\ \A e \in Descs : (DescThread(e) = t /\ dstate[e] = "free") => d <= e
       /\ \E h \in KindsOf(d), c \in CmdsOf(t) :
            txq' = [txq EXCEPT ![t] = Append(@, [d |-> d, tok |-> Token(d), h |-> h,
                                                  cmd |-> c.cmd, inregion |-> c.inregion,
                                                  pgn |-> c.pgn])]
       /\ dstate' = [dstate EXCEPT ![d] = "sent"]
  /\ last' = NoCall
  /\ UNCHANGED <<rxq, active, ts, ref, kill, overflow_queue, nr_overflows,
                 next_thread_rr, pos, n_pkts, bufs, drain_pos, nic, pool_free, crashed, env, mem, sg, cc>>

\* a runtime thread takes a completion from its ingress ring and frees the
\* packet buffer
RuntimeRecv(t) ==
  /\ ~crashed
  /\ active[t]
  /\ rxq[t] # <<>>
  /\ rxq' = [rxq EXCEPT ![t] = Tail(@)]
  /\ dstate' = [dstate EXCEPT ![Head(rxq[t])] = "done"]
  /\ last' = NoCall
  /\ UNCHANGED <<txq, active, ts, ref, kill, overflow_queue, nr_overflows,
                 next_thread_rr, pos, n_pkts, bufs, drain_pos, nic, pool_free, crashed, env, mem, sg, cc>>

\* the runtime hands a freed packet buffer back to its allocator, from where
\* a later transmission takes it
RuntimeReuse(d) ==
  /\ env.reuse
  /\ ~crashed
  /\ dstate[d] = "done"
  /\ dstate' = [dstate EXCEPT ![d] = "free"]
  /\ last' = NoCall
  /\ UNCHANGED <<txq, rxq, active, ts, ref, kill, overflow_queue, nr_overflows,
                 next_thread_rr, pos, n_pkts, bufs, drain_pos, nic, pool_free, crashed, env, mem, sg, cc>>

\* the runtime is torn down: p->kill is set
RuntimeKill(p) ==
  /\ env.kill
  /\ ~crashed
  /\ ~kill[p]
  /\ kill' = [kill EXCEPT ![p] = TRUE]
  /\ last' = NoCall
  /\ UNCHANGED <<txq, rxq, active, ts, ref, overflow_queue, nr_overflows,
                 next_thread_rr, pos, n_pkts, bufs, drain_pos, nic, pool_free,
                 crashed, dstate, env, mem, sg, cc>>

\* a runtime thread parks: th->active is cleared
ThreadPark(t) ==
  /\ env.park
  /\ ~crashed
  /\ active[t]
  /\ active' = [active EXCEPT ![t] = FALSE]
  /\ last' = NoCall
  /\ UNCHANGED <<txq, rxq, ts, ref, kill, overflow_queue, nr_overflows,
                 next_thread_rr, pos, n_pkts, bufs, drain_pos, nic, pool_free,
                 crashed, dstate, env, mem, sg, cc>>

\* a parked thread is woken: th->active is set and the thread is polled again
ThreadWake(t) ==
  /\ ~crashed
  /\ ~active[t]
  /\ ~kill[ProcOf(t)]
  /\ active' = [active EXCEPT ![t] = TRUE]
  /\ ts' = IF \E i \in 1 .. Len(ts) : ts[i] = t THEN ts ELSE Append(ts, t)
  /\ last' = NoCall
  /\ UNCHANGED <<txq, rxq, ref, kill, overflow_queue, nr_overflows,
                 next_thread_rr, pos, n_pkts, bufs, drain_pos, nic, pool_free,
                 crashed, dstate, env, mem, sg, cc>>

Next ==
  \/ tx_burst
  \/ DriverRelease
  \/ tx_drain_completions
  \/ \E t \in Threads : RuntimeEnqueue(t)
  \/ \E t \in Threads : RuntimeRecv(t)
  \/ \E p \in Procs : RuntimeKill(p)
  \/ \E t \in Threads : ThreadPark(t)
  \/ \E t \in Threads : ThreadWake(t)

Spec == Init /\ [][Next]_vars

(* ------------------------------------------------------------------------ *)
(* The segmenter of tx_burst, byte by byte, on one packet buffer            *)
(* ------------------------------------------------------------------------ *)
txvars == <<txq, rxq, active, ts, ref, kill, overflow_queue, nr_overflows,
            next_thread_rr, pos, n_pkts, bufs, drain_pos, nic, pool_free,
            crashed, dstate, env, cc, last>>

\* addresses count bytes from the struct tx_net_hdr: hdr->payload
PayloadAt == TxNetHdrSize
\* hdr->payload + 42
DataAt == PayloadAt + HdrLen
\* the byte a runtime wrote at address a, told apart from every other byte
\* and from the bytes of a rewritten length field
OrigByte(a) == 256 + a

\* payload lengths, and the room a runtime leaves after the data
SegLens == {1459, 2000, 2916, 2917, 4000, 4374}
SegRooms == {0, 59, 60, 119, 120, 179, 180}
SegInputs == {Hdr(HdrLen + L + room, L + UdpHdrSize) : L \in SegLens, room \in SegRooms}

\* the packet buffer as the runtime wrote it: the UDP length at payload + 38,
\* the IP total length at payload + 16 and the IP protocol at payload + 23
OrigMem(h) ==
  [a \in 0 .. (TxNetHdrSize + h.len - 1) |->
     IF a = PayloadAt + 38 THEN h.ulen[1]
     ELSE IF a = PayloadAt + 39 THEN h.ulen[2]
     ELSE IF a = PayloadAt + 16 THEN h.iplen[1]
     ELSE IF a = PayloadAt + 17 THEN h.iplen[2]
     ELSE IF a = PayloadAt + 23 THEN h.proto
     ELSE OrigByte(a)]

\* udphdr->len read from the packet buffer
MemHdr(m, len) ==
  [len |-> len, ulen |-> <<m[PayloadAt + UDP_OFFSET + 4], m[PayloadAt + UDP_OFFSET + 5]>>,
   iplen |-> <<m[PayloadAt + 16], m[PayloadAt + 17]>>, proto |-> m[PayloadAt + 23]]

memmove(m, dst, src, n) ==
  [a \in DOMAIN m |-> IF dst <= a /\ a < dst + n THEN m[a - dst + src] ELSE m[a]]
memcpy(m, dst, src, n) == memmove(m, dst, src, n)
\* *(uint16_t *)(at) = b
Store16(m, at, b) == [m EXCEPT ![at] = b[1], ![at + 1] = b[2]]
\* the two length fields of the header block at curr
StoreLens(m, curr, len) ==
  Store16(Store16(m, curr + PayloadAt + 38, hton16(len - 34)),
          curr + PayloadAt + 16, hton16(len - 14))

\* a chunk loop that moves every chunk by one header block only
MoveDstFlat(curr, segs, j) == curr + SegHdr
\* curr + (segs - j) * 60: where chunk j, counted from the last, moves to
MoveDst(curr, segs, j) == curr + (segs - j) * SegHdr
\* j == 1 ? len - 1458 * (segs - 1) : 1458
MoveLen(h, j) == IF j = 1 THEN Residual(h) ELSE SegPayload

SegInit ==
  /\ InitState
  /\ env = EnvGso
  /\ \E h \in SegInputs :
       /\ mem = OrigMem(h)
       /\ sg = [pc |-> "start", h |-> h, segs |-> 0, curr |-> 0, j |-> 0, out |-> <<>>]

\* len, segs and curr are computed; a segs that the buffer cannot hold ends
\* in an access outside the mapped memory
SegStart ==
  /\ sg.pc = "start"
  /\ LET h == MemHdr(mem, sg.h.len)
     IN sg' = IF SegFaults(h)
              THEN [sg EXCEPT !.pc = "fault"]
              ELSE [sg EXCEPT !.pc = "move", !.segs = SegCount(h), !.j = 1,
                              !.curr = DataAt + SegPayload * (SegCount(h) - 1)]
  /\ UNCHANGED <<txvars, mem>>

\* one memmove of the chunk loop
SegMove ==
  /\ sg.pc = "move"
  /\ sg.j <= sg.segs - 1
  /\ mem' = memmove(mem, MoveDst(sg.curr, sg.segs, sg.j), sg.curr, MoveLen(sg.h, sg.j))
  /\ sg' = [sg EXCEPT !.curr = @ - SegPayload, !.j = @ + 1]
  /\ UNCHANGED txvars

\* the chunk loop is left: curr -= 60
SegMoved ==
  /\ sg.pc = "move"
  /\ sg.j > sg.segs - 1
  /\ sg' = [sg EXCEPT !.pc = "copy", !.curr = @ - SegHdr, !.j = 1]
  /\ UNCHANGED <<txvars, mem>>

\* one round of the header loop: memcpy, then the fields of the block at curr
SegCopy ==
  /\ sg.pc = "copy"
  /\ sg.j <= sg.segs - 1
  /\ mem' = StoreLens(memcpy(mem, sg.curr + SegStride, sg.curr, SegHdr), sg.curr, MTU_SIZE)
  /\ sg' = [sg EXCEPT !.curr = @ + SegStride, !.j = @ + 1,
                      !.out = Append(@, [at |-> sg.curr, len |-> MTU_SIZE])]
  /\ UNCHANGED txvars

\* the fields of the last header block
SegLast ==
  /\ sg.pc = "copy"
  /\ sg.j > sg.segs - 1
  /\ mem' = StoreLens(mem, sg.curr, LastLen(sg.h))
  /\ sg' = [sg EXCEPT !.pc = "done",
                      !.out = Append(@, [at |-> sg.curr, len |-> LastLen(sg.h)])]
  /\ UNCHANGED txvars

SegNext ==
  \/ SegStart
  \/ SegMove
  \/ SegMoved
  \/ SegCopy
  \/ SegLast

SegSpec == SegInit /\ [][SegNext]_vars

(* ------------------------------------------------------------------------ *)
(* A steady load: packet buffers are reused, the driver accepts every       *)
(* buffer it is offered, and the transmit loop keeps calling tx_burst       *)
(* ------------------------------------------------------------------------ *)
TxBurstAccepting ==
  /\ ~crashed
  /\ \E P \in {Poll} :
       /\ ~P.bug
       /\ \/ TxBurstIdle(P)
          \/ TxBurstOffer(P, TRUE)

LoopInit == InitState /\ env = EnvLoop /\ mem = <<>> /\ sg = SegIdle

LoopNext ==
  \/ TxBurstAccepting
  \/ DriverRelease
  \/ tx_drain_completions
  \/ \E t \in Threads : RuntimeEnqueue(t)
  \/ \E t \in Threads : RuntimeRecv(t)
  \/ \E d \in Descs : RuntimeReuse(d)

\* the transmit loop calls tx_burst and tx_drain_completions again and again,
\* the driver releases what it sent, and a running thread takes what is in
\* its ingress ring
LoopSpec ==
  /\ LoopInit
  /\ [][LoopNext]_vars
  /\ WF_vars(TxBurstAccepting)
  /\ WF_vars(tx_drain_completions)
  /\ WF_vars(DriverRelease)
  /\ \A t \in Threads : WF_vars(RuntimeRecv(t))

(* ------------------------------------------------------------------------ *)
(* The completion router with the free callback on a thread of the driver:  *)
(* tx_send_completion and tx_drain_completions advance one access to       *)
(* p->nr_overflows, p->overflow_queue or an ingress ring at a time, and     *)
(* nothing in tx.c keeps the two apart                                      *)
(* ------------------------------------------------------------------------ *)
\* what no step of the two calls writes
racefixed == <<txq, active, ts, kill, pos, n_pkts, bufs, crashed, dstate, env, mem, sg>>

RaceInit == InitState /\ env = EnvSpill /\ mem = <<>> /\ sg = SegIdle

\* the transmit thread calls tx_burst when it is not inside
\* tx_drain_completions
RaceBurst ==
  /\ cc.dr.pc = "idle"
  /\ TxBurstAccepting

\* tx_send_completion returns: the mbuf is back in the pool
CbReturn(ret, path) ==
  /\ pool_free' = pool_free + 1
  /\ last' = [op |-> "tx_send_completion", ret |-> ret, path |-> path]

\* the driver frees its oldest buffer; tx_send_completion runs up to its
\* enqueue attempt
CbStart ==
  /\ ~crashed
  /\ cc.cb.pc = "idle"
  /\ nic # <<>>
  /\ nic' = Tail(nic)
  /\ \E b \in {Head(nic)} :
       /\ next_thread_rr' = IF ~kill[b.p] /\ b.tok # 0 /\ ~active[b.th]
                            THEN [next_thread_rr EXCEPT ![b.p] = RrNext(b.p, @)]
                            ELSE next_thread_rr
       /\ IF kill[b.p] \/ b.tok = 0
          THEN /\ ref' = [ref EXCEPT ![b.p] = proc_put(@)]
               /\ CbReturn(TRUE, IF kill[b.p] THEN "killed" ELSE "suppressed")
               /\ UNCHANGED <<rxq, cc>>
          ELSE IF lrpc_send_ok(rxq[CompletionThread(b)])
          THEN /\ rxq' = [rxq EXCEPT ![CompletionThread(b)] = Append(@, b.tok)]
               /\ ref' = [ref EXCEPT ![b.p] = proc_put(@)]
               /\ CbReturn(TRUE, "sent")
               /\ UNCHANGED cc
          ELSE /\ cc' = [cc EXCEPT !.cb = [pc |-> "check", b |-> b]]
               /\ last' = NoCall
               /\ UNCHANGED <<rxq, ref, pool_free>>
  /\ UNCHANGED <<overflow_queue, nr_overflows, drain_pos, racefixed>>

\* if (p->nr_overflows == p->max_overflows) return false; the value read is
\* the index of the store that follows
CbCheck ==
  /\ ~crashed
  /\ cc.cb.pc = "check"
  /\ IF nr_overflows[cc.cb.b.p] = env.max_overflows
     THEN /\ cc' = [cc EXCEPT !.cb = [pc |-> "idle"]]
          /\ CbReturn(FALSE, "overflow_full")
     ELSE /\ cc' = [cc EXCEPT !.cb = [pc |-> "spill", b |-> cc.cb.b,
                                      n |-> nr_overflows[cc.cb.b.p],
                                      nr_done |-> FALSE, slot_done |-> FALSE]]
          /\ last' = NoCall
          /\ UNCHANGED pool_free
  /\ UNCHANGED <<rxq, ref, overflow_queue, nr_overflows, next_thread_rr,
                 drain_pos, nic, racefixed>>

\* after the second of the two stores of the spill: proc_put, return true
CbSpilled(both) ==
  IF both
  THEN /\ cc' = [cc EXCEPT !.cb = [pc |-> "idle"]]
       /\ ref' = [ref EXCEPT ![cc.cb.b.p] = proc_put(@)]
       /\ CbReturn(TRUE, "overflow")
  ELSE /\ last' = NoCall
       /\ UNCHANGED <<ref, pool_free>>

\* p->overflow_queue[p->nr_overflows++] = completion_data: the store of the
\* counter (the two stores are not ordered)
CbStoreNr ==
  /\ ~crashed
  /\ cc.cb.pc = "spill"
  /\ ~cc.cb.nr_done
  /\ nr_overflows' = [nr_overflows EXCEPT ![cc.cb.b.p] = cc.cb.n + 1]
  /\ IF cc.cb.slot_done
     THEN CbSpilled(TRUE)
     ELSE cc' = [cc EXCEPT !.cb.nr_done = TRUE] /\ CbSpilled(FALSE)
  /\ UNCHANGED <<rxq, overflow_queue, next_thread_rr, drain_pos, nic, racefixed>>

\* the store of the token
CbStoreSlot ==
  /\ ~crashed
  /\ cc.cb.pc = "spill"
  /\ ~cc.cb.slot_done
  /\ overflow_queue' = [overflow_queue EXCEPT
                          ![cc.cb.b.p] = OverflowPush(@, cc.cb.n, cc.cb.b.tok)]
  /\ IF cc.cb.nr_done
     THEN CbSpilled(TRUE)
     ELSE cc' = [cc EXCEPT !.cb.slot_done = TRUE] /\ CbSpilled(FALSE)
  /\ UNCHANGED <<rxq, nr_overflows, next_thread_rr, drain_pos, nic, racefixed>>

\* the process the loop of tx_drain_completions is at
DrProc == Clients[((drain_pos + cc.dr.c) % Len(Clients)) + 1]

\* tx_drain_completions is called
DrStart ==
  /\ ~crashed
  /\ cc.dr.pc = "idle"
  /\ cc' = [cc EXCEPT !.dr = [pc |-> "test", c |-> 0, drained |-> 0, i |-> 0]]
  /\ last' = NoCall
  /\ UNCHANGED <<rxq, ref, overflow_queue, nr_overflows, next_thread_rr,
                 drain_pos, nic, pool_free, racefixed>>

\* drain_overflow_queue returned for the process the loop is at
DrNextProc == [cc EXCEPT !.dr = [pc |-> "test", c |-> cc.dr.c + 1,
                                 drained |-> cc.dr.drained + cc.dr.i, i |-> 0]]

\* the loop conditions of tx_drain_completions and drain_overflow_queue
DrTest ==
  /\ ~crashed
  /\ cc.dr.pc = "test"
  /\ IF cc.dr.c >= Len(Clients) \/ cc.dr.drained >= IOKERNEL_OVERFLOW_BATCH_DRAIN
     THEN /\ cc' = [cc EXCEPT !.dr = [pc |-> "idle"]]
          /\ drain_pos' = (drain_pos + 1) % Len(Clients)
          /\ last' = [op |-> "tx_drain_completions", ret |-> cc.dr.drained > 0,
                      drained |-> cc.dr.drained]
     ELSE /\ cc' = IF /\ nr_overflows[DrProc] > 0
                      /\ cc.dr.i < IOKERNEL_OVERFLOW_BATCH_DRAIN - cc.dr.drained
                   THEN [cc EXCEPT !.dr.pc = "take"]
                   ELSE DrNextProc
          /\ last' = NoCall
          /\ UNCHANGED drain_pos
  /\ UNCHANGED <<rxq, ref, overflow_queue, nr_overflows, next_thread_rr,
                 nic, pool_free, racefixed>>

\* --p->nr_overflows and p->next_thread_rr++
DrTake ==
  /\ ~crashed
  /\ cc.dr.pc = "take"
  /\ nr_overflows' = [nr_overflows EXCEPT ![DrProc] = @ - 1]
  /\ next_thread_rr' = [next_thread_rr EXCEPT ![DrProc] = RrNext(DrProc, @)]
  /\ cc' = [cc EXCEPT !.dr = [pc |-> "send", c |-> cc.dr.c, drained |-> cc.dr.drained,
                              i |-> cc.dr.i, n |-> nr_overflows[DrProc],
                              dst |-> RrThread(DrProc, next_thread_rr[DrProc])]]
  /\ last' = NoCall
  /\ UNCHANGED <<rxq, ref, overflow_queue, drain_pos, nic, pool_free, racefixed>>

\* what the read of p->overflow_queue[n - 1] gives: the slot, or, when the
\* counter has left the array, whatever lies there
DrRead(p, n) ==
  IF n \in 1 .. env.max_overflows
  THEN {OverflowTop(overflow_queue[p], n)}
  ELSE {0} \cup {Token(d) : d \in Descs}

\* rx_send_to_runtime with the token read from p->overflow_queue
DrSend ==
  /\ ~crashed
  /\ cc.dr.pc = "send"
  /\ IF lrpc_send_ok(rxq[cc.dr.dst])
     THEN /\ \E tok \in DrRead(DrProc, cc.dr.n) :
               rxq' = [rxq EXCEPT ![cc.dr.dst] = Append(@, tok)]
          /\ cc' = [cc EXCEPT !.dr = [pc |-> "test", c |-> cc.dr.c,
                                      drained |-> cc.dr.drained, i |-> cc.dr.i + 1]]
     ELSE /\ cc' = [cc EXCEPT !.dr.pc = "restore"]
          /\ UNCHANGED rxq
  /\ last' = NoCall
  /\ UNCHANGED <<ref, overflow_queue, nr_overflows, next_thread_rr, drain_pos,
                 nic, pool_free, racefixed>>

\* p->nr_overflows++; break
DrRestore ==
  /\ ~crashed
  /\ cc.dr.pc = "restore"
  /\ nr_overflows' = [nr_overflows EXCEPT ![DrProc] = @ + 1]
  /\ cc' = DrNextProc
  /\ last' = NoCall
  /\ UNCHANGED <<rxq, ref, overflow_queue, next_thread_rr, drain_pos, nic,
                 pool_free, racefixed>>

RaceNext ==
  \/ RaceBurst
  \/ CbStart
  \/ CbCheck
  \/ CbStoreNr
  \/ CbStoreSlot
  \/ DrStart
  \/ DrTest
  \/ DrTake
  \/ DrSend
  \/ DrRestore
  \/ \E t \in Threads : RuntimeEnqueue(t)
  \/ \E t \in Threads : RuntimeRecv(t)

RaceSpec == RaceInit /\ [][RaceNext]_vars

(* ------------------------------------------------------------------------ *)
(* Properties                                                               *)
(* ------------------------------------------------------------------------ *)
\* RX_NET_COMPLETE records with token tok in the ingress rings
InRings(tok) ==
  Cardinality({x \in Threads \X (1 .. (RingCap + 1)) :
                 x[2] <= Len(rxq[x[1]]) /\ rxq[x[1]][x[2]] = tok})
\* tokens tok waiting in the overflow queues
InOverflow(tok) ==
  Cardinality({x \in Procs \X (1 .. MaxOverflows) :
                 x[2] <= nr_overflows[x[1]] /\ overflow_queue[x[1]][x[2]] = tok})
\* completions for tok that are delivered or on their way to a ring
Records(tok) == InRings(tok) + InOverflow(tok)

\* the buffers that were prepared and not yet released, oldest first
Prepared == nic \o bufs
\* this step is a driver release: tx_send_completion ran on Head(nic)
ReleaseStep == nic # <<>> /\ last'.op = "tx_send_completion"
\* this step is a tx_burst call that reached rte_eth_tx_burst
BurstSent == last'.op = "tx_burst" /\ last'.ret /\ last'.TX_COMPLETION_FAIL = 0
\* this step is a tx_burst call
BurstStep == last'.op \in {"tx_burst", "tx_burst_fault"}
\* the buffers a tx_burst step prepared
NewBufs == SubSeq(Prepared', Len(Prepared) + 1, Len(Prepared'))
\* those of them that stand for the header blocks pulled by the call
FreshBufs == SubSeq(NewBufs, UninitSlots + 1, Len(NewBufs))
\* the buffers a tx_burst step passed to rte_eth_tx_burst
Offered == SubSeq(nic', Len(nic) + 1, Len(nic')) \o bufs'
\* tx_send_completion on b delivers nothing: p is being torn down, or the ring
\* it tries and the overflow queue of p are both full
Dropped(b) ==
  \/ kill[b.p]
  \/ ~lrpc_send_ok(rxq[CompletionThread(b)]) /\ nr_overflows[b.p] = env.max_overflows
\* descriptors the step dequeued from the egress rings
PulledNow == Len(txq[1]) + Len(txq[2]) - Len(txq'[1]) - Len(txq'[2])

\* packet buffer d waits in the egress ring of its thread
Queued(d) == \E i \in 1 .. Len(txq[DescThread(d)]) : txq[DescThread(d)][i].d = d
\* packet buffer d is in an egress ring, in a prepared buffer or its token is
\* on its way to a ring
InFlight(d) ==
  \/ Queued(d)
  \/ \E i \in 1 .. Len(Prepared) : Prepared[i].d = d
  \/ InOverflow(Token(d)) > 0
\* completions for d the runtime has got or finds in its ring
Delivered(d) == (IF dstate[d] = "done" THEN 1 ELSE 0) + InRings(Token(d))

\* C1 (as amended): a tx_burst call that gets its mbufs prepares exactly one
\* buffer, carrying the token, for every header block of len <= MTU_SIZE it
\* pulled; the release of such a buffer puts exactly one record with the token
\* into an ingress ring or the overflow queue of p, and none when p is being
\* torn down or ring and overflow queue are full; tx_drain_completions neither
\* loses nor duplicates a token.
C1_OneBufferOneRecord ==
  [][ /\ BurstSent =>
           \A x \in 1 .. Len(Poll.pulled) :
             Poll.pulled[x].h.len <= MTU_SIZE =>
               /\ Cardinality({i \in 1 .. Len(FreshBufs) :
                                 FreshBufs[i].d = Poll.pulled[x].d}) = 1
               /\ \A i \in 1 .. Len(FreshBufs) :
                    FreshBufs[i].d = Poll.pulled[x].d =>
                      FreshBufs[i].tok = Poll.pulled[x].tok /\ ~FreshBufs[i].gso
      /\ (ReleaseStep /\ ~Head(nic).gso /\ Head(nic).tok # 0) =>
           \A tok \in {Head(nic).tok} :
             Records(tok)' = Records(tok) + (IF Dropped(Head(nic)) THEN 0 ELSE 1)
      /\ last'.op = "tx_drain_completions" =>
           \A d \in Descs : Records(Token(d))' = Records(Token(d))
    ]_vars

\* a small packet went out and its record is in the ring of its thread
C1_Witness ==
  /\ last.op = "tx_send_completion"
  /\ last.path = "sent"
  /\ rxq[1] = <<Token(1)>>
  /\ Prepared = <<>>

\* C1 (as stated): once a pulled header block of len <= MTU_SIZE is nowhere in
\* flight any more, its runtime has got exactly one completion for it (the
\* first runtime sends small packets only; runs in which the I/O kernel
\* stopped or the runtime is torn down are left out).
C1_ExactlyOne ==
  \A d \in Descs :
    (DescThread(d) = 1 /\ dstate[d] # "free" /\ ~InFlight(d) /\ ~crashed /\ ~kill[1])
      => Delivered(d) = 1

\* C2 (as amended): of the segments tx_burst makes of an oversized header
\* block all but the last carry token 0 and the last carries the token of the
\* block; releasing a segment puts a record with that token into a ring or
\* the overflow queue exactly when it is the last segment and the completion
\* is not dropped (p torn down, or ring and overflow queue full).
C2_TokenOnLastSegment ==
  [][ /\ BurstSent =>
           \A i \in 1 .. Len(NewBufs) :
             NewBufs[i].gso =>
               /\ NewBufs[i].tok =
                    (IF NewBufs[i].seg < NewBufs[i].of THEN 0 ELSE Token(NewBufs[i].d))
               /\ Cardinality({k \in 1 .. Len(NewBufs) : NewBufs[k].d = NewBufs[i].d})
                    = NewBufs[i].of
      /\ (ReleaseStep /\ Head(nic).gso) =>
           \A tok \in {Token(Head(nic).d)} :
             Records(tok)' = Records(tok) +
               (IF Head(nic).seg = Head(nic).of /\ ~Dropped(Head(nic)) THEN 1 ELSE 0)
    ]_vars

\* all three segments of a packet were released and its one record is in the
\* ring
C2_Witness ==
  /\ last.op = "tx_send_completion"
  /\ last.path = "sent"
  /\ rxq[2] = <<Token(NDesc1 + 1)>>
  /\ env.name = "gso"
  /\ ref[2] = 0
  /\ pool_free = PoolSize
  /\ n_pkts = 0

\* C2 (as stated): the release of the last segment of an oversized packet
\* always delivers one completion with the token of the packet.
C2_AlwaysOne ==
  [][ (ReleaseStep /\ Head(nic).gso /\ Head(nic).seg = Head(nic).of) =>
        \A tok \in {Token(Head(nic).d)} : Records(tok)' = Records(tok) + 1 ]_vars

\* C3: every call of tx_send_completion on a buffer of p lowers the reference
\* count of p by one, whatever path it takes.
C3_PutOnEveryPath ==
  [][ ReleaseStep => \A p \in {Head(nic).p} : ref'[p] = ref[p] - 1 ]_vars

\* C4: a token is never put into an ingress ring by tx_send_completion while
\* an older token of the same process waits in the process's overflow queue.
C4_NoOvertake ==
  [][ (ReleaseStep /\ last'.path = "sent") => nr_overflows[Head(nic).p] = 0 ]_vars

\* the records the step appended to the ring of t, filled up with 0
Appended(t) ==
  [i \in 1 .. RingCap |->
     IF Len(rxq[t]) + i <= Len(rxq'[t]) THEN rxq'[t][Len(rxq[t]) + i] ELSE 0]

\* C5: the tokens tx_drain_completions moves from the overflow queue of p to
\* the ingress ring are the oldest of the queue, in the order they entered.
C5_Fifo ==
  [][ last'.op = "tx_drain_completions" =>
        \A p \in Procs :
          /\ {Appended(t)[i] : t \in {u \in Threads : ProcOf(u) = p},
                               i \in 1 .. RingCap} \ {0}
               = {overflow_queue[p][i] : i \in 1 .. (nr_overflows[p] - nr_overflows'[p])}
          /\ \A t \in {u \in Threads : ProcOf(u) = p} :
               \A i, j \in 1 .. RingCap :
                 (i < j /\ Appended(t)[j] # 0) =>
                   \E a, b \in 1 .. nr_overflows[p] :
                     /\ a < b
                     /\ overflow_queue[p][a] = Appended(t)[i]
                     /\ overflow_queue[p][b] = Appended(t)[j] ]_vars

\* a is the beginning of b
IsPrefix(a, b) == Len(a) <= Len(b) /\ a = SubSeq(b, 1, Len(a))

\* C6: when the driver took k >= 1 of the buffers of a tx_burst call and left
\* some, the tx_burst call that follows returns and has passed the buffers
\* left over to the driver, none lost and none twice.
C6_CarryOverHandedOver ==
  [][ (BurstStep /\ last.op = "tx_burst" /\ last.sent >= 1 /\ last.TX_BACKPRESSURE > 0) =>
        /\ last'.op = "tx_burst"
        /\ IsPrefix(bufs, Offered)
        /\ IsPrefix(Prepared, Prepared') ]_vars

\* C7 (as amended): a tx_burst call that finds buffers left over dequeues at
\* most IOKERNEL_TX_BURST_SIZE - n_pkts new descriptors (none when that is not
\* positive), and when it reaches the driver the left-over buffers are the
\* first it passes, in their order, ahead of the new ones.
C7_CarryOverFirst ==
  [][ (BurstStep /\ bufs # <<>>) =>
        /\ PulledNow <= Max(0, IOKERNEL_TX_BURST_SIZE - n_pkts)
        /\ BurstSent => IsPrefix(bufs, Offered) ]_vars

\* one buffer was left over, the next call pulled one more descriptor and
\* the driver took nothing: both buffers wait, the left-over one first
C7_Witness ==
  /\ env.name = "spill"
  /\ last.op = "tx_burst"
  /\ last.TX_PULLED = 1
  /\ last.TX_BACKPRESSURE = 2
  /\ Len(bufs) = 2
  /\ bufs[1].d < bufs[2].d

\* C7 (as stated): a tx_burst call that finds buffers left over dequeues
\* nothing from any egress ring.
C7_NoNewPolling ==
  [][ (BurstStep /\ bufs # <<>>) => txq' = txq ]_vars

\* C8: a descriptor in the egress ring of a polled thread is dequeued
\* eventually.
C8_NoStarvation ==
  \A d \in Descs : Queued(d) ~> ~Queued(d)

\* C9: every buffer handed to the driver has len <= MTU_SIZE, and the
\* segments of a segmented packet carry IP total length len - 14 and UDP
\* length len - 34.
C9_SegmentsFit ==
  \A i \in 1 .. Len(Prepared) :
    /\ Prepared[i].len <= MTU_SIZE
    /\ Prepared[i].gso =>
         /\ Prepared[i].iplen = hton16(Prepared[i].len - 14)
         /\ Prepared[i].udplen = hton16(Prepared[i].len - 34)

RECURSIVE PayloadBefore(_, _)
\* bytes of application data in the first c segments of out
PayloadBefore(out, c) ==
  IF c = 0 THEN 0 ELSE PayloadBefore(out, c - 1) + (out[c].len - HdrLen)

\* the application data of the emitted segments, one after the other, is the
\* data the runtime wrote
SegConcat ==
  sg.pc = "done" =>
    /\ PayloadBefore(sg.out, Len(sg.out)) = PayloadLen(sg.h)
    /\ \A c \in 1 .. Len(sg.out) :
         \A i \in 0 .. (sg.out[c].len - HdrLen - 1) :
           mem[sg.out[c].at + SegHdr + i] = OrigByte(DataAt + PayloadBefore(sg.out, c - 1) + i)
\* a memmove leaves the chunks that are still to be moved as they were
SegMoveKeepsSources ==
  (sg.pc = "move" /\ sg'.pc = "move") =>
    \A a \in DataAt .. (sg.curr - 1) : mem'[a] = mem[a]
\* a memcpy writes the header block as the runtime wrote it, from a block it
\* does not overlap
SegCopyIsOriginal ==
  (sg.pc = "copy" /\ sg'.pc = "copy") =>
    \A i \in 0 .. (SegHdr - 1) : mem'[sg.curr + SegStride + i] = OrigMem(sg.h)[i]

CeilSegs(n) == (n + SegPayload - 1) \div SegPayload

\* C11: the segmenter emits ceil(payload_len / 1458) segments, payload_len
\* being the UDP length field minus 8; all but the last have len 1500 and the
\* last carries the rest of the data (4000 bytes: 1500, 1500, 1126).
C11_CeilSegments ==
  sg.pc = "done" =>
    /\ Len(sg.out) = CeilSegs(PayloadLen(sg.h))
    /\ \A c \in 1 .. Len(sg.out) :
         sg.out[c].len = IF c < Len(sg.out)
                         THEN MTU_SIZE
                         ELSE PayloadLen(sg.h) - SegPayload * (Len(sg.out) - 1) + HdrLen

\* C12: once p->kill is set, a tx_send_completion for a buffer of p puts
\* nothing into any ingress ring and nothing into the overflow queue of p,
\* and lowers the reference count of p by one.
C12_KilledIsSilent ==
  [][ (ReleaseStep /\ kill[Head(nic).p]) =>
        /\ rxq' = rxq
        /\ overflow_queue' = overflow_queue
        /\ nr_overflows' = nr_overflows
        /\ \A p \in {Head(nic).p} : ref'[p] = ref[p] - 1 ]_vars

\* the buffer of a packet of a torn-down runtime was released: its token is
\* in no ring and in no overflow queue, and the reference is gone
C12_Witness ==
  /\ last.op = "tx_send_completion"
  /\ last.path = "killed"
  /\ \E d \in Descs :
       /\ kill[ProcOf(DescThread(d))]
       /\ dstate[d] = "sent"
       /\ ~InFlight(d)
       /\ Records(Token(d)) = 0
       /\ ref[ProcOf(DescThread(d))] = 0

\* tx_send_completion runs on a buffer of a live process with a token and
\* finds the ingress ring it tries full
ReleaseRingFull ==
  /\ ReleaseStep
  /\ ~kill[Head(nic).p]
  /\ Head(nic).tok # 0
  /\ ~lrpc_send_ok(rxq[CompletionThread(Head(nic))])

\* C13: when the ingress ring is full and the overflow queue of p holds
\* max_overflows tokens, tx_send_completion returns false and leaves rings,
\* overflow queue and nr_overflows as they were (the token is dropped); while
\* there is room the token goes into the next free slot. So with a full ring
\* the first max_overflows tokens stay queued, in their order, and the next
\* one is reported as failed.
C13_OverflowFullDrops ==
  [][ ReleaseRingFull =>
        \A p \in {Head(nic).p}, tok \in {Head(nic).tok} :
          IF nr_overflows[p] = env.max_overflows
          THEN /\ ~last'.ret
               /\ rxq' = rxq
               /\ overflow_queue' = overflow_queue
               /\ nr_overflows' = nr_overflows
          ELSE /\ last'.ret
               /\ rxq' = rxq
               /\ nr_overflows' = [nr_overflows EXCEPT ![p] = @ + 1]
               /\ overflow_queue' =
                    [overflow_queue EXCEPT ![p] = [@ EXCEPT ![nr_overflows[p] + 1] = tok]]
    ]_vars

\* three completions of one runtime met a ring that holds one record and an
\* overflow queue that holds one token: the first is in the ring, the second
\* in the overflow queue, the third was reported as failed and is nowhere
C13_Witness ==
  /\ env.name = "full"
  /\ last.op = "tx_send_completion"
  /\ ~last.ret
  /\ rxq[1] = <<Token(1)>>
  /\ nr_overflows[1] = env.max_overflows
  /\ overflow_queue[1][1] = Token(2)
  /\ dstate[3] = "sent"
  /\ ~InFlight(3)
  /\ Records(Token(3)) = 0

\* C14: a tx_burst call whose rte_mempool_get_bulk fails adds the number of
\* segments that needed buffers to TX_COMPLETION_FAIL, hands nothing to the
\* driver and leaves the static counters with n_pkts equal to n_bufs, so that
\* no later call works on the descriptors it pulled.
C14_FailedCycleForgotten ==
  [][ (BurstStep /\ last'.op = "tx_burst" /\ last'.TX_COMPLETION_FAIL > 0) =>
        /\ last'.TX_COMPLETION_FAIL = BurstM(Poll, CHOOSE g \in StaleChoice : TRUE)
        /\ nic' = nic
        /\ bufs' = bufs
        /\ n_pkts' = Len(bufs') ]_vars

\* the step dequeued from the egress ring of t an entry with a command other
\* than TXPKT_NET_XMIT or an offset outside the region of the runtime
PulledBadFrom(t) ==
  \E i \in 1 .. (Len(txq[t]) - Len(txq'[t])) : BugOn(txq[t][i])

\* C15: when tx_burst dequeues a command that is not TXPKT_NET_XMIT, or an
\* offset that does not translate into the region of its runtime, the kill
\* flag of that runtime is set, no other runtime is touched and the transmit
\* path keeps running.
C15_OnlyOffenderEnds ==
  [][ \A t \in Threads :
        (BurstStep /\ PulledBadFrom(t)) =>
          /\ ~crashed'
          /\ kill' = [kill EXCEPT ![ProcOf(t)] = TRUE] ]_vars

\* a header block of more than the MTU that is not UDP or has no UDP data
Malformed(h) == h.len > MTU_SIZE /\ (h.proto # IPPROTO_UDP \/ PayloadLen(h) = 0)

\* C16: a pulled header block of len > MTU_SIZE that is not UDP, or is UDP
\* without data, is not segmented and not handed to the driver: tx_burst goes
\* on, no buffer is prepared for it, and its completion is reported (a record
\* with its token is put into the ring of its thread when that has room).
C16_MalformedDropped ==
  [][ BurstStep =>
        \A x \in 1 .. Len(Poll.pulled) :
          Malformed(Poll.pulled[x].h) =>
            /\ ~crashed'
            /\ \A i \in 1 .. Len(Prepared') : Prepared'[i].d # Poll.pulled[x].d
            /\ \A e \in {Poll.pulled[x]} :
                 lrpc_send_ok(rxq[e.th]) => Records(e.tok)' = Records(e.tok) + 1 ]_vars

\* C17: a tx_burst call returns true exactly when it pulled a descriptor or
\* found carry-over buffers to offer to the driver; when it returns false it
\* has changed none of pos, n_pkts, n_bufs and the counters.
C17_ReturnTellsWork ==
  [][ (BurstStep /\ last'.op = "tx_burst") =>
        /\ last'.ret <=> (PulledNow > 0 \/ bufs # <<>>)
        /\ ~last'.ret =>
             /\ UNCHANGED <<pos, n_pkts, bufs>>
             /\ last'.TX_PULLED = 0
             /\ last'.TX_BACKPRESSURE = 0
             /\ last'.TX_COMPLETION_FAIL = 0 ]_vars

\* the buffer of packet buffer d is still to be released by the driver
Unreleased(d) == Queued(d) \/ \E i \in 1 .. Len(Prepared) : Prepared[i].d = d

\* C18: with tx_send_completion on a thread of the driver and
\* tx_drain_completions on the transmit thread, whenever neither call is under
\* way nr_overflows is within max_overflows, the slots below it hold tokens,
\* and the token of every released buffer is exactly once in a ring, in the
\* overflow queue or with its runtime (rings and overflow queue have room for
\* every token of the run, so none is dropped for lack of room).
C18_RouterSafe ==
  (cc = CcIdle /\ ~crashed) =>
    /\ \A p \in Procs : nr_overflows[p] <= env.max_overflows
    /\ Records(0) = 0
    /\ \A d \in Descs :
         (dstate[d] # "free" /\ ~Unreleased(d)) =>
           Records(Token(d)) + (IF dstate[d] = "done" THEN 1 ELSE 0) = 1

\* the thread whose ring a completion for buffer b has to go to: the
\* originating thread when it is active, else the one the cursor selects
RouteOf(b) ==
  IF active[b.th]
  THEN b.th
  ELSE ThreadsOf(b.p)[(next_thread_rr[b.p] % Len(ThreadsOf(b.p))) + 1]

\* C19: for a released buffer with a token of a live process,
\* tx_send_completion enqueues into the ring of the originating thread iff
\* that thread is active and else into the ring of the thread that
\* next_thread_rr selects; no other ring is written; the token goes into the
\* overflow queue only if that one enqueue failed, and never into both.
C19_OneRouteOneRecord ==
  [][ (ReleaseStep /\ ~kill[Head(nic).p] /\ Head(nic).tok # 0) =>
        \A b \in {Head(nic)} :
          /\ \A u \in Threads : u # RouteOf(b) => rxq'[u] = rxq[u]
          /\ IF Len(rxq[RouteOf(b)]) < RingCap
             THEN /\ rxq'[RouteOf(b)] = Append(rxq[RouteOf(b)], b.tok)
                  /\ overflow_queue' = overflow_queue
                  /\ nr_overflows' = nr_overflows
             ELSE /\ rxq' = rxq
                  /\ InOverflow(b.tok)' <= InOverflow(b.tok) + 1
          /\ Records(b.tok)' <= Records(b.tok) + 1 ]_vars

\* the thread that sent the packet is parked and the cursor selected the
\* other thread of the process: the record is in that thread's ring
C19_Witness ==
  /\ last.op = "tx_send_completion"
  /\ last.path = "sent"
  /\ ~active[1]
  /\ active[2]
  /\ DescThread(2) = 1
  /\ rxq[2] = <<Token(2)>>

\* tokens the step took out of the overflow queue of p, and out of all
MovedFrom(p) == nr_overflows[p] - nr_overflows'[p]
MovedTotal == MovedFrom(1) + MovedFrom(2)
\* records the step put into the ingress rings
RingGrowth == Len(rxq'[1]) + Len(rxq'[2]) - Len(rxq[1]) - Len(rxq[2])

\* C20: a call of tx_drain_completions writes no slot of an overflow queue
\* and only lowers nr_overflows, so what is left of a queue is what was there
\* before the failed attempt, in the same order; every token it took is at the
\* end of a ring and no token is lost or doubled; when tokens of p are left
\* and the batch was not used up, the ring it tried for p is full; and it
\* returns true iff it moved a token.
C20_DrainKeepsTokens ==
  [][ last'.op = "tx_drain_completions" =>
        /\ overflow_queue' = overflow_queue
        /\ \A p \in Procs : MovedFrom(p) >= 0
        /\ \A t \in Threads : IsPrefix(rxq[t], rxq'[t])
        /\ RingGrowth = MovedTotal
        /\ MovedTotal <= IOKERNEL_OVERFLOW_BATCH_DRAIN
        /\ \A tok \in {0} \cup {Token(d) : d \in Descs} : Records(tok)' = Records(tok)
        /\ \A p \in Procs :
             (nr_overflows'[p] > 0 /\ MovedTotal < IOKERNEL_OVERFLOW_BATCH_DRAIN) =>
               ~lrpc_send_ok(rxq'[RrThread(p, next_thread_rr[p] + MovedFrom(p))])
        /\ last'.ret <=> MovedTotal > 0 ]_vars

\* of two queued tokens the call moved one into the ring, which is full now,
\* and left the other where it was
C20_Witness ==
  /\ env.name = "spill"
  /\ last.op = "tx_drain_completions"
  /\ last.ret
  /\ last.drained = 1
  /\ rxq[1] = <<Token(3)>>
  /\ nr_overflows[1] = 1
  /\ overflow_queue[1][1] = Token(2)

\* C21 (as amended): a tx_burst call that returns false leaves pos as it
\* was, and so does a call that polls at least one thread and reaches
\* IOKERNEL_TX_BURST_SIZE pending packets; every other call that returns
\* advances pos by one, also one that finds that many packets pending and no
\* thread in the poll set.
C21_PosAdvance ==
  [][ (BurstStep /\ last'.op = "tx_burst") =>
        pos' = IF ~last'.ret THEN pos
               ELSE IF ts # <<>> /\ n_pkts + PulledNow >= IOKERNEL_TX_BURST_SIZE THEN pos
               ELSE (pos + 1) % Cardinality(Threads) ]_vars

\* both segments of a packet wait for the driver, no thread is polled any
\* more, and a call that pulled nothing has returned true
C21_Witness ==
  /\ env.name = "parkgso"
  /\ last.op = "tx_burst"
  /\ last.ret
  /\ last.TX_PULLED = 0
  /\ ts = <<>>
  /\ n_pkts >= IOKERNEL_TX_BURST_SIZE
  /\ Len(bufs) = n_pkts

\* C21 (as stated): a tx_burst call leaves pos as it was or advances it by
\* one; a call that reaches IOKERNEL_TX_BURST_SIZE pending packets leaves it
\* as it was, and so does a call that returns false.
C21_PosOnlyWhenNotFilled ==
  [][ (BurstStep /\ last'.op = "tx_burst") =>
        /\ pos' = pos \/ pos' = (pos + 1) % Cardinality(Threads)
        /\ n_pkts + PulledNow >= IOKERNEL_TX_BURST_SIZE => pos' = pos
        /\ ~last'.ret => pos' = pos ]_vars

\* the buffers of s that belong to thread t, in their order
OfThread(s, t) == SelectSeq(s, LAMBDA b : b.th = t)
\* the segments of the header blocks a tx_burst step dequeued, in the order
\* of the dequeues
PulledSegs == Flatten([x \in 1 .. Len(Poll.pulled) |-> Segments(Poll.pulled[x])])
\* packet buffer d was dequeued from its egress ring and no segment of it was
\* passed to the driver yet
Owed(d) ==
  /\ d \in Descs
  /\ dstate[d] = "sent"
  /\ ~Queued(d)
  /\ \A i \in 1 .. Len(Prepared) : Prepared[i].d # d
  /\ Records(Token(d)) = 0

\* C22: what a tx_burst call passes to rte_eth_tx_burst is the buffers left
\* over, in their order, followed by new segments; every new segment belongs
\* to a descriptor that was dequeued and not offered before, and for each
\* thread T the new segments made of the descriptors this call dequeued from
\* T stand in the order of the dequeues, the segments of one descriptor
\* together and in payload order.
C22_OfferedInDequeueOrder ==
  [][ BurstSent =>
        /\ IsPrefix(bufs, Offered)
        /\ \A i \in 1 .. UninitSlots :
             Owed(NewBufs[i].d) /\ NewBufs[i].th = DescThread(NewBufs[i].d)
        /\ \A t \in Threads : OfThread(FreshBufs, t) = OfThread(PulledSegs, t) ]_vars

\* the same for the calls that start with no header block left pending by a
\* failed allocation
C22_OrderWithoutPending ==
  [][ (BurstSent /\ UninitSlots = 0) =>
        /\ IsPrefix(bufs, Offered)
        /\ \A t \in Threads : OfThread(NewBufs, t) = OfThread(PulledSegs, t) ]_vars

\* C23: every buffer tx_prepare_tx_mbuf prepared got its physical address
\* from an entry of the page_paddrs table of its process: the 2 MiB page
\* index it used lies within the table.
C23_PageIndexInTable ==
  \A i \in 1 .. Len(Prepared) : PageInTable(Prepared[i].pgn)

\* the tokens waiting in the overflow queue of p, oldest first
Waiting(p) == SubSeq(overflow_queue[p], 1, nr_overflows[p])
\* records the step appended to the ingress rings of the threads of p
GrowthOf(p) ==
  Cardinality({x \in Threads \X (1 .. RingCap) :
                 ProcOf(x[1]) = p /\ Appended(x[1])[x[2]] # 0})

\* C24: nr_overflows of every process stays between 0 and max_overflows, and
\* the slots below it hold exactly the tokens that were spilled and not yet
\* delivered: the queues start empty, a tx_send_completion call that spills
\* adds its token behind the waiting ones and any other leaves them as they
\* are, a tx_drain_completions call takes waiting tokens from the end, as
\* many as it appended to the rings of the process and those, and leaves the
\* others (a failed attempt has restored nr_overflows); no other step
\* changes them.
C24_OverflowQueueExact ==
  /\ [](\A p \in Procs : 0 <= nr_overflows[p] /\ nr_overflows[p] <= env.max_overflows)
  /\ [][ \A p \in Procs :
           IF ReleaseStep /\ Head(nic).p = p /\ last'.path = "overflow"
           THEN Waiting(p)' = Append(Waiting(p), Head(nic).tok)
           ELSE IF last'.op = "tx_drain_completions"
           THEN /\ IsPrefix(Waiting(p)', Waiting(p))
                /\ GrowthOf(p) = MovedFrom(p)
                /\ {Appended(t)[i] : t \in {u \in Threads : ProcOf(u) = p},
                                     i \in 1 .. RingCap} \ {0}
                     = {Waiting(p)[i] : i \in (nr_overflows'[p] + 1) .. nr_overflows[p]}
           ELSE Waiting(p)' = Waiting(p) ]_vars

\* two tokens were spilled behind a full ring and a drain that could not
\* enqueue left both where they were
C24_Witness ==
  /\ env.name = "spill"
  /\ last.op = "tx_drain_completions"
  /\ ~last.ret
  /\ rxq[1] = <<Token(1)>>
  /\ nr_overflows[1] = env.max_overflows
  /\ Waiting(1) = <<Token(2), Token(3)>>

\* C25: every slot of hdrs[] and threads[] a tx_burst call reads lies within
\* the arrays and was written by tx_drain_queue in that call.
C25_ReadsOnlyWritten ==
  [][ BurstStep =>
        /\ HdrsRead(Poll) \subseteq HdrsWritten(Poll)
        /\ HdrsRead(Poll) \subseteq 0 .. (IOKERNEL_TX_BURST_SIZE - 1) ]_vars

\* C26: the pending counters always satisfy n_bufs <= n_pkts <= TX_MAX_SEGS,
\* so that every index at which seg_ts, seg_hdrs and bufs were written is
\* below TX_MAX_SEGS, and no tx_burst call dequeues more descriptors than
\* IOKERNEL_TX_BURST_SIZE less the pending count.
C26_PendingWithinArrays ==
  /\ [](n_bufs <= n_pkts /\ n_pkts <= TX_MAX_SEGS)
  /\ [][ BurstStep => PulledNow <= Max(0, IOKERNEL_TX_BURST_SIZE - n_pkts) ]_vars

\* the same for the runs in which every pointer read from an unwritten slot
\* of hdrs[] designates a small packet
C26_WithinArraysSmallStale ==
  /\ [](env.stale = {KSmall} => n_bufs <= n_pkts /\ n_pkts <= TX_MAX_SEGS)
  /\ [][ BurstStep => PulledNow <= Max(0, IOKERNEL_TX_BURST_SIZE - n_pkts) ]_vars

====
